---- MODULE Spec2Model ----
(***************************************************************************)
(* Two example HTTP services of the aspire-workshop repository:            *)
(*   "basic" : src/Examples/AspirePublish/python-service/main.py           *)
(*   "ai"    : src/complex-comparison/src/ai-service/main.py               *)
(* Each module is a list of top-level statements executed in order when    *)
(* the module is loaded.  The model steps through those statements, then   *)
(* serves requests through the application object the statements built.    *)
(***************************************************************************)
EXTENDS Integers, Sequences, FiniteSets, TLC

VARIABLES
    mode,           \* per service: how the module is loaded ("main" | "import")
    pc,             \* per service: index of the next top-level statement
    proc,           \* per service: "loading" | "loaded" | "serving" | "exited"
    exitCode,       \* per service: exit status once proc = "exited"
    startupError,   \* per service: a statement raised, or the bind failed
    ran,            \* per service: statement name -> times executed
    tracerProvider, \* ai: the global tracer provider and its span processors
    loggingInstrumented, \* ai: logging subsystem wrapped
    appCreated,     \* per service: app = FastAPI() has run
    routes,         \* per service: the application's route table (a sequence)
    middleware,     \* per service: the application's middleware (a sequence)
    listener,       \* per service: NoListener or [by, host, port]
    reqs,           \* all requests accepted so far, in arrival order
    buffer,         \* ai: the batch span processor's queue of ended spans
    exported,       \* ai: spans delivered to the collector
    dropped,        \* ai: spans discarded because the queue was full
    failed,         \* ai: spans given up after a failed export
    collectorUp     \* environment: the collector accepts connections

vars == <<mode, pc, proc, exitCode, startupError, ran, tracerProvider,
          loggingInstrumented, appCreated, routes, middleware, listener,
          reqs, buffer, exported, dropped, failed, collectorUp>>

startupVars == <<mode, pc, proc, exitCode, startupError, ran, tracerProvider,
                 loggingInstrumented, appCreated, routes, middleware, listener>>

tracingVars == <<buffer, exported, dropped, failed>>

(***************************************************************************)
(* Bounds of the model.                                                    *)
(***************************************************************************)
MaxRequests == 2
MaxQueue == 1

(***************************************************************************)
(* Program constants.                                                      *)
(***************************************************************************)
Port == 8000
Host == "0.0.0.0"

Services == {"basic", "ai"}
Modes == {"main", "import"}

NoListener == [by |-> "none", host |-> "", port |-> 0]
NoProvider == [set |-> FALSE, processors |-> <<>>]

(***************************************************************************)
(* A URL path is the sequence of its segments after the leading "/":       *)
(* "/" is <<"">>, "/docs" is <<"docs">>, "/docs/" is <<"docs", "">>.       *)
(***************************************************************************)
Root == <<"">>
Paths == { Root, <<"docs">>, <<"docs", "">>, <<"items">> }

\* The requests a client sends: every path with GET, and POST to "/".
Inputs == { <<"GET", p>> : p \in Paths } \cup { <<"POST", Root>> }

(***************************************************************************)
(* Module loading.                                                         *)
(***************************************************************************)

\* Variant: the instrumentation calls are placed after the __main__ block.
ProgramLateInstrument(s) ==
    IF s = "ai"
    THEN << "set_tracer_provider", "add_span_processor", "FastAPI", "route",
            "main_guard", "instrument_app", "logging_instrument" >>
    ELSE << "FastAPI", "route" >>

\* The top-level statements of each module, in source order.
Program(s) ==
    IF s = "ai"
    THEN << "set_tracer_provider", "add_span_processor", "FastAPI",
            "instrument_app", "logging_instrument", "route", "main_guard" >>
    ELSE << "FastAPI", "route" >>

Statements == { "set_tracer_provider", "add_span_processor", "FastAPI",
                "instrument_app", "logging_instrument", "route", "main_guard" }

\* The statements that configure tracing and instrumentation.
TracingStmts == { "set_tracer_provider", "add_span_processor",
                  "instrument_app", "logging_instrument" }

\* The statement the module is about to execute.
Stmt(s) ==
    IF proc[s] = "loading" /\ pc[s] \in 1..Len(Program(s))
    THEN Program(s)[pc[s]]
    ELSE "none"

Step(s) ==
    /\ pc' = [pc EXCEPT ![s] = @ + 1]
    /\ ran' = [ran EXCEPT ![s][Stmt(s)] = @ + 1]

\* FastAPI() with no arguments: the application starts with the framework's
\* documentation routes (openapi_url, docs_url, the OAuth2 redirect of the
\* docs page, redoc_url), each answering GET and HEAD.
DefaultRoutes ==
    << [path |-> <<"openapi.json">>, methods |-> {"GET", "HEAD"}, endpoint |-> "openapi"],
       [path |-> <<"docs">>, methods |-> {"GET", "HEAD"}, endpoint |-> "swagger_ui_html"],
       [path |-> <<"docs", "oauth2-redirect">>, methods |-> {"GET", "HEAD"},
            endpoint |-> "swagger_ui_redirect"],
       [path |-> <<"redoc">>, methods |-> {"GET", "HEAD"}, endpoint |-> "redoc_html"] >>

\* Variant: the decorator names another path.
RootRouteAtItems == [path |-> <<"items">>, methods |-> {"GET"}, endpoint |-> "read_root"]

\* @app.get("/") over def read_root().
RootRoute == [path |-> Root, methods |-> {"GET"}, endpoint |-> "read_root"]

\* Variant: a processor that exports each span as it ends.
SpanProcessorSimple == "simple"

\* The span processor the module attaches to the provider.
SpanProcessor == "batch"

\* Variant: the server is started without the __main__ test.
IsMainAlways(s) == TRUE

\* if __name__ == "__main__":
IsMain(s) == mode[s] = "main"

\* Variant: the statement is wrapped in try/except and loading goes on.
Swallowed(s) == [proc |-> "loading", exitCode |-> 0, pc |-> pc[s] + 1]

\* No top-level statement is inside a try block: an exception ends the
\* interpreter with a traceback and exit status 1.
Uncaught(s) == [proc |-> "exited", exitCode |-> 1, pc |-> pc[s]]

\* trace.set_tracer_provider(TracerProvider())
SetTracerProvider ==
    /\ Stmt("ai") = "set_tracer_provider"
    /\ tracerProvider' = [set |-> TRUE, processors |-> <<>>]
    /\ Step("ai")
    /\ UNCHANGED <<mode, proc, exitCode, startupError, loggingInstrumented,
                   appCreated, routes, middleware, listener, reqs,
                   tracingVars, collectorUp>>

\* trace.get_tracer_provider().add_span_processor(BatchSpanProcessor(OTLPSpanExporter()))
AddSpanProcessor ==
    /\ Stmt("ai") = "add_span_processor"
    /\ tracerProvider.set
    /\ tracerProvider' = [tracerProvider EXCEPT !.processors = Append(@, SpanProcessor)]
    /\ Step("ai")
    /\ UNCHANGED <<mode, proc, exitCode, startupError, loggingInstrumented,
                   appCreated, routes, middleware, listener, reqs,
                   tracingVars, collectorUp>>

\* app = FastAPI()
CreateApp(s) ==
    /\ Stmt(s) = "FastAPI"
    /\ appCreated' = [appCreated EXCEPT ![s] = TRUE]
    /\ routes' = [routes EXCEPT ![s] = DefaultRoutes]
    /\ middleware' = [middleware EXCEPT ![s] = <<>>]
    /\ Step(s)
    /\ UNCHANGED <<mode, proc, exitCode, startupError, tracerProvider,
                   loggingInstrumented, listener, reqs, tracingVars, collectorUp>>

\* FastAPIInstrumentor.instrument_app(app)
InstrumentApp ==
    /\ Stmt("ai") = "instrument_app"
    /\ appCreated["ai"]
    /\ middleware' = [middleware EXCEPT !["ai"] = Append(@, "OpenTelemetryMiddleware")]
    /\ Step("ai")
    /\ UNCHANGED <<mode, proc, exitCode, startupError, tracerProvider,
                   loggingInstrumented, appCreated, routes, listener, reqs,
                   tracingVars, collectorUp>>

\* LoggingInstrumentor().instrument(set_logging_format=True)
InstrumentLogging ==
    /\ Stmt("ai") = "logging_instrument"
    /\ loggingInstrumented' = TRUE
    /\ Step("ai")
    /\ UNCHANGED <<mode, proc, exitCode, startupError, tracerProvider,
                   appCreated, routes, middleware, listener, reqs,
                   tracingVars, collectorUp>>

\* @app.get("/") def read_root(): ...
RegisterRoute(s) ==
    /\ Stmt(s) = "route"
    /\ appCreated[s]
    /\ routes' = [routes EXCEPT ![s] = Append(@, RootRoute)]
    /\ Step(s)
    /\ UNCHANGED <<mode, proc, exitCode, startupError, tracerProvider,
                   loggingInstrumented, appCreated, middleware, listener, reqs,
                   tracingVars, collectorUp>>

\* A tracing or instrumentation statement raises.
SetupRaises ==
    /\ Stmt("ai") \in TracingStmts
    /\ startupError' = [startupError EXCEPT !["ai"] = TRUE]
    /\ proc' = [proc EXCEPT !["ai"] = Uncaught("ai").proc]
    /\ exitCode' = [exitCode EXCEPT !["ai"] = Uncaught("ai").exitCode]
    /\ pc' = [pc EXCEPT !["ai"] = Uncaught("ai").pc]
    /\ UNCHANGED <<mode, ran, tracerProvider, loggingInstrumented, appCreated,
                   routes, middleware, listener, reqs, tracingVars, collectorUp>>

\* if __name__ == "__main__": import uvicorn; uvicorn.run(app, host="0.0.0.0", port=8000)
\* uvicorn.run binds the socket and serves until the process is stopped; a bind
\* failure is logged and ends the process with status 1.
MainGuard ==
    /\ Stmt("ai") = "main_guard"
    /\ Step("ai")
    /\ IF IsMain("ai")
       THEN \E bound \in BOOLEAN :
              IF bound
              THEN /\ listener' = [listener EXCEPT !["ai"] =
                                     [by |-> "module", host |-> Host, port |-> Port]]
                   /\ proc' = [proc EXCEPT !["ai"] = "serving"]
                   /\ UNCHANGED <<exitCode, startupError>>
              ELSE /\ proc' = [proc EXCEPT !["ai"] = "exited"]
                   /\ exitCode' = [exitCode EXCEPT !["ai"] = 1]
                   /\ startupError' = [startupError EXCEPT !["ai"] = TRUE]
                   /\ UNCHANGED listener
       ELSE UNCHANGED <<listener, proc, exitCode, startupError>>
    /\ UNCHANGED <<mode, tracerProvider, loggingInstrumented, appCreated,
                   routes, middleware, reqs, tracingVars, collectorUp>>

\* The last statement has run.  A module run as a script ends the process
\* with status 0; an imported module is now available to its importer.
ModuleEnd(s) ==
    /\ proc[s] = "loading"
    /\ pc[s] = Len(Program(s)) + 1
    /\ IF mode[s] = "main"
       THEN /\ proc' = [proc EXCEPT ![s] = "exited"]
            /\ exitCode' = [exitCode EXCEPT ![s] = 0]
       ELSE /\ proc' = [proc EXCEPT ![s] = "loaded"]
            /\ UNCHANGED exitCode
    /\ UNCHANGED <<mode, pc, startupError, ran, tracerProvider,
                   loggingInstrumented, appCreated, routes, middleware,
                   listener, reqs, tracingVars, collectorUp>>

\* The process that imported the module (an external supervisor) starts a
\* listener of its own for the module's app, on a binding of its choosing.
HostServe(s) ==
    /\ proc[s] = "loaded"
    /\ proc' = [proc EXCEPT ![s] = "serving"]
    /\ listener' = [listener EXCEPT ![s] =
                      [by |-> "host", host |-> "127.0.0.1", port |-> 8000]]
    /\ UNCHANGED <<mode, pc, exitCode, startupError, ran, tracerProvider,
                   loggingInstrumented, appCreated, routes, middleware, reqs,
                   tracingVars, collectorUp>>

(***************************************************************************)
(* Request handling.                                                       *)
(***************************************************************************)

\* Variant: the ai handler keeps a module-level flag and greets differently
\* once it has answered.
read_root_ai_counting ==
    [message |-> IF \E k \in DOMAIN reqs :
                       /\ reqs[k].svc = "ai" /\ reqs[k].path = Root
                       /\ reqs[k].method = "GET" /\ reqs[k].stage \in {"responded", "done"}
                 THEN "Hello again from AI Service!"
                 ELSE "Hello from AI Service!"]

\* Variant: the ai handler returns the other service's text.
read_root_ai_copied == [message |-> "Hello from Python FastAPI via Uvicorn in .NET Aspire!"]

\* def read_root() of the ai service.
read_root_ai == [message |-> "Hello from AI Service!"]

\* Variant: the basic handler reads a module-level count of requests in flight.
read_root_basic_shared ==
    [message |-> IF Cardinality({ k \in DOMAIN reqs :
                       reqs[k].svc = "basic" /\ reqs[k].stage = "received" }) > 1
                 THEN "Busy"
                 ELSE "Hello from Python FastAPI via Uvicorn in .NET Aspire!"]

\* Variant: the basic handler returns the message under another key.
read_root_basic_key == [msg |-> "Hello from Python FastAPI via Uvicorn in .NET Aspire!"]

\* def read_root() of the basic service.
read_root_basic == [message |-> "Hello from Python FastAPI via Uvicorn in .NET Aspire!"]

\* The JSON object a returned dict is rendered to: its key/value pairs.
RECURSIVE Serialize(_)
Serialize(d) ==
    IF DOMAIN d = {} THEN <<>>
    ELSE LET k == CHOOSE x \in DOMAIN d : TRUE
             rest == [x \in DOMAIN d \ {k} |-> d[x]]
         IN  <<(<<k, d[k]>>)>> \o Serialize(rest)

\* The response of a route's endpoint; a path operation answers 200.
CallEndpoint(s, e) ==
    CASE e = "read_root" ->
           [status |-> 200,
            body |-> Serialize(IF s = "ai" THEN read_root_ai ELSE read_root_basic)]
      [] e = "openapi" -> [status |-> 200, body |-> <<(<<"openapi", "schema">>)>>]
      [] e = "swagger_ui_html" -> [status |-> 200, body |-> <<(<<"html", "swagger-ui">>)>>]
      [] e = "swagger_ui_redirect" -> [status |-> 200, body |-> <<(<<"html", "oauth2-redirect">>)>>]
      [] OTHER -> [status |-> 200, body |-> <<(<<"html", "redoc">>)>>]

\* str.rstrip("/") on a path.
RECURSIVE RStrip(_)
RStrip(p) ==
    IF p = <<>> THEN <<>>
    ELSE IF p[Len(p)] = "" THEN RStrip(SubSeq(p, 1, Len(p) - 1)) ELSE p

\* The path the router tries when nothing matched: the trailing slash removed
\* if there is one, added if there is none.
ToggleSlash(p) == IF p[Len(p)] = "" THEN RStrip(p) ELSE Append(p, "")

\* A route against a request: "FULL" (path and method), "PARTIAL" (path only), "NONE".
Matches(route, m, p) ==
    IF route.path # p THEN "NONE"
    ELSE IF m \in route.methods THEN "FULL" ELSE "PARTIAL"

\* The application's router: the first full match answers; else a partial
\* match answers 405; else a route matching the path with its trailing slash
\* toggled redirects; else the default not-found response.
RouterApp(s, rs, m, p) ==
    LET full == { k \in DOMAIN rs : Matches(rs[k], m, p) = "FULL" }
        partial == { k \in DOMAIN rs : Matches(rs[k], m, p) = "PARTIAL" }
        first == CHOOSE k \in full : \A j \in full : k <= j
    IN  IF full # {} THEN CallEndpoint(s, rs[first].endpoint)
        ELSE IF partial # {}
             THEN [status |-> 405, body |-> <<(<<"detail", "Method Not Allowed">>)>>]
        ELSE IF p # Root /\ \E k \in DOMAIN rs : Matches(rs[k], m, ToggleSlash(p)) # "NONE"
             THEN [status |-> 307, body |-> <<>>]
        ELSE [status |-> 404, body |-> <<(<<"detail", "Not Found">>)>>]

\* Whether the service's app carries the request-tracing middleware.
Instrumented(s) ==
    \E k \in DOMAIN middleware[s] : middleware[s][k] = "OpenTelemetryMiddleware"

HasProcessor(kind) ==
    \E k \in DOMAIN tracerProvider.processors : tracerProvider.processors[k] = kind

\* The listener accepts a request.
Receive(s, m, p) ==
    /\ proc[s] = "serving"
    /\ Len(reqs) < MaxRequests
    /\ reqs' = Append(reqs, [svc |-> s, method |-> m, path |-> p,
                             stage |-> "received", span |-> "none",
                             status |-> 0, body |-> <<>>])
    /\ UNCHANGED <<startupVars, tracingVars, collectorUp>>

\* The tracing middleware opens the request's span.
StartSpan(i) ==
    /\ i \in DOMAIN reqs
    /\ reqs[i].stage = "received"
    /\ Instrumented(reqs[i].svc)
    /\ reqs' = [reqs EXCEPT ![i].stage = "started", ![i].span = "open"]
    /\ UNCHANGED <<startupVars, tracingVars, collectorUp>>

\* The router dispatches the request, the endpoint builds the response and
\* the response is written to the client.
Handle(i) ==
    /\ i \in DOMAIN reqs
    /\ reqs[i].stage = IF Instrumented(reqs[i].svc) THEN "started" ELSE "received"
    /\ LET r == reqs[i]
           resp == RouterApp(r.svc, routes[r.svc], r.method, r.path)
       IN  reqs' = [reqs EXCEPT ![i].stage = IF Instrumented(r.svc)
                                             THEN "responded" ELSE "done",
                                ![i].status = resp.status,
                                ![i].body = resp.body]
    /\ UNCHANGED <<startupVars, tracingVars, collectorUp>>

\* The tracing middleware ends the span and the provider hands it to its
\* processors.  A batch processor queues it and returns, discarding the
\* oldest queued span when the queue is full; a simple processor exports it
\* before returning.
EndSpan(i) ==
    /\ i \in DOMAIN reqs
    /\ reqs[i].stage = "responded"
    /\ reqs' = [reqs EXCEPT ![i].stage = "done", ![i].span = "closed"]
    /\ IF HasProcessor("batch")
       THEN IF Len(buffer) < MaxQueue
            THEN /\ buffer' = Append(buffer, i)
                 /\ UNCHANGED <<exported, dropped, failed>>
            ELSE /\ buffer' = Append(Tail(buffer), i)
                 /\ dropped' = dropped \cup {Head(buffer)}
                 /\ UNCHANGED <<exported, failed>>
       ELSE IF HasProcessor("simple")
            THEN /\ collectorUp
                 /\ exported' = exported \cup {i}
                 /\ UNCHANGED <<buffer, dropped, failed>>
            ELSE UNCHANGED tracingVars
    /\ UNCHANGED <<startupVars, collectorUp>>

\* The batch processor's worker sends the queued spans to the collector; a
\* batch that cannot be delivered is given up.
ExportBatch ==
    /\ HasProcessor("batch")
    /\ proc["ai"] # "exited"
    /\ buffer # <<>>
    /\ buffer' = <<>>
    /\ IF collectorUp
       THEN /\ exported' = exported \cup { buffer[k] : k \in DOMAIN buffer }
            /\ UNCHANGED <<dropped, failed>>
       ELSE /\ failed' = failed \cup { buffer[k] : k \in DOMAIN buffer }
            /\ UNCHANGED <<exported, dropped>>
    /\ UNCHANGED <<startupVars, reqs, collectorUp>>

\* The collector becomes reachable or unreachable.
CollectorToggle ==
    /\ collectorUp' = ~collectorUp
    /\ UNCHANGED <<startupVars, reqs, tracingVars>>

(***************************************************************************)
(* Specification.                                                          *)
(***************************************************************************)
Init ==
    /\ mode \in [Services -> Modes]
    /\ pc = [s \in Services |-> 1]
    /\ proc = [s \in Services |-> "loading"]
    /\ exitCode = [s \in Services |-> 0]
    /\ startupError = [s \in Services |-> FALSE]
    /\ ran = [s \in Services |-> [st \in Statements |-> 0]]
    /\ tracerProvider = NoProvider
    /\ loggingInstrumented = FALSE
    /\ appCreated = [s \in Services |-> FALSE]
    /\ routes = [s \in Services |-> <<>>]
    /\ middleware = [s \in Services |-> <<>>]
    /\ listener = [s \in Services |-> NoListener]
    /\ reqs = <<>>
    /\ buffer = <<>>
    /\ exported = {}
    /\ dropped = {}
    /\ failed = {}
    /\ collectorUp \in BOOLEAN

Next ==
    \/ SetTracerProvider
    \/ AddSpanProcessor
    \/ \E s \in Services : CreateApp(s)
    \/ InstrumentApp
    \/ InstrumentLogging
    \/ \E s \in Services : RegisterRoute(s)
    \/ SetupRaises
    \/ MainGuard
    \/ \E s \in Services : ModuleEnd(s)
    \/ \E s \in Services : HostServe(s)
    \/ \E s \in Services, in \in Inputs : Receive(s, in[1], in[2])
    \/ \E i \in 1..MaxRequests : StartSpan(i)
    \/ \E i \in 1..MaxRequests : Handle(i)
    \/ \E i \in 1..MaxRequests : EndSpan(i)
    \/ ExportBatch
    \/ CollectorToggle

Spec == Init /\ [][Next]_vars

(***************************************************************************)
(* Properties.                                                             *)
(***************************************************************************)

\* The response of request i has been written.
Responded(i) == reqs[i].stage \in {"responded", "done"}

\* A client-error status.
NotFoundClass(st) == st \in 400..499

\* The paths of the framework's documentation routes.
DocPaths == { <<"openapi.json">>, <<"docs">>, <<"docs", "oauth2-redirect">>, <<"redoc">> }

AiBody == << <<"message", "Hello from AI Service!">> >>
BasicBody == << <<"message", "Hello from Python FastAPI via Uvicorn in .NET Aspire!">> >>

\* C1 as stated: every request to a path other than "/" is answered with a
\* 404-class response, on both services.
C1_OnlyRootServed ==
    \A i \in DOMAIN reqs :
        (Responded(i) /\ reqs[i].path # Root) => NotFoundClass(reqs[i].status)

\* C1 amended: every request to a path other than "/" and other than the
\* framework's documentation paths (/openapi.json, /docs, /docs/oauth2-redirect,
\* /redoc, with or without trailing slashes) is answered with a 404-class
\* response, on both services.
C1_OnlyRootAndDocsServed ==
    \A i \in DOMAIN reqs :
        (Responded(i) /\ reqs[i].path # Root /\ RStrip(reqs[i].path) \notin DocPaths)
            => NotFoundClass(reqs[i].status)

\* Both services have answered a request to /items.
C1_Witness ==
    \E i, j \in DOMAIN reqs :
        /\ reqs[i].svc = "basic" /\ reqs[j].svc = "ai"
        /\ Responded(i) /\ Responded(j)
        /\ reqs[i].path = <<"items">> /\ reqs[j].path = <<"items">>
        /\ reqs[i].status = 404 /\ reqs[j].status = 404

\* C3: every GET / on the ai service is answered 200 with the body
\* {"message": "Hello from AI Service!"}, whatever happened before.
C3_AiRootResponse ==
    \A i \in DOMAIN reqs :
        (Responded(i) /\ reqs[i].svc = "ai" /\ reqs[i].method = "GET" /\ reqs[i].path = Root)
            => (reqs[i].status = 200 /\ reqs[i].body = AiBody)

\* A GET / on the ai service answered after an earlier request completed.
C3_Witness ==
    \E i, j \in DOMAIN reqs :
        /\ i < j /\ reqs[i].stage = "done" /\ reqs[i].svc = "ai"
        /\ reqs[j].svc = "ai" /\ reqs[j].method = "GET" /\ reqs[j].path = Root
        /\ Responded(j) /\ reqs[j].status = 200

\* C4: every GET / on the basic service is answered 200 with the body
\* {"message": "Hello from Python FastAPI via Uvicorn in .NET Aspire!"},
\* whatever happened before.
C4_BasicRootResponse ==
    \A i \in DOMAIN reqs :
        (Responded(i) /\ reqs[i].svc = "basic" /\ reqs[i].method = "GET" /\ reqs[i].path = Root)
            => (reqs[i].status = 200 /\ reqs[i].body = BasicBody)

\* A GET / on the basic service answered after an earlier request completed.
C4_Witness ==
    \E i, j \in DOMAIN reqs :
        /\ i < j /\ reqs[i].stage = "done" /\ reqs[i].svc = "basic"
        /\ reqs[j].svc = "basic" /\ reqs[j].method = "GET" /\ reqs[j].path = Root
        /\ Responded(j) /\ reqs[j].status = 200

\* The response the code gives to each input, from the request's own
\* service, method and path alone.
Expected(s, m, p) ==
    CASE m = "GET" /\ p = Root ->
           [status |-> 200, body |-> IF s = "ai" THEN AiBody ELSE BasicBody]
      [] m = "POST" /\ p = Root ->
           [status |-> 405, body |-> << <<"detail", "Method Not Allowed">> >>]
      [] m = "GET" /\ p = <<"docs">> ->
           [status |-> 200, body |-> << <<"html", "swagger-ui">> >>]
      [] m = "GET" /\ p = <<"docs", "">> -> [status |-> 307, body |-> <<>>]
      [] OTHER -> [status |-> 404, body |-> << <<"detail", "Not Found">> >>]

\* Request i is accepted and not yet answered.
InFlight(i) == reqs[i].stage \in {"received", "started"}

\* C5: under every interleaving of the requests in flight, each request is
\* answered with the response for its own service, method and path, whatever
\* other requests are in flight and in whatever order they complete.
C5_IndependentResponses ==
    \A i \in DOMAIN reqs :
        Responded(i) =>
            [status |-> reqs[i].status, body |-> reqs[i].body]
                = Expected(reqs[i].svc, reqs[i].method, reqs[i].path)

\* Two different requests to one service were in flight together and the
\* later one was answered first.
C5_Witness ==
    \E i, j \in DOMAIN reqs :
        /\ i < j /\ reqs[i].svc = reqs[j].svc
        /\ <<reqs[i].method, reqs[i].path>> # <<reqs[j].method, reqs[j].path>>
        /\ InFlight(i) /\ Responded(j)

\* Answered requests with the same service, method and path have the same
\* status and body.
SameResponses ==
    \A i, j \in DOMAIN reqs :
        ( /\ Responded(i) /\ Responded(j)
          /\ reqs[i].svc = reqs[j].svc
          /\ reqs[i].method = reqs[j].method
          /\ reqs[i].path = reqs[j].path )
        => (reqs[i].status = reqs[j].status /\ reqs[i].body = reqs[j].body)

\* A step that changes a request leaves the application (route table and
\* middleware) as it was.
HandlingKeepsApp ==
    reqs' # reqs => (routes' = routes /\ middleware' = middleware)

\* C6: the same request issued repeatedly gets the same status and body each
\* time, and handling a request leaves the state that determines responses
\* unchanged.
C6_Idempotent == []SameResponses /\ [][HandlingKeepsApp]_vars

\* The same GET / was answered MaxRequests times by one service.
C6_Witness ==
    /\ Len(reqs) = MaxRequests
    /\ \A i \in DOMAIN reqs :
          /\ Responded(i) /\ reqs[i].svc = reqs[1].svc
          /\ reqs[i].method = "GET" /\ reqs[i].path = Root /\ reqs[i].status = 200

\* The module has executed all its statements without an error.
Completed(s) == pc[s] = Len(Program(s)) + 1 /\ ~startupError[s]

\* C7: the ai module starts its own listener, bound to 0.0.0.0:8000, exactly
\* when it is executed directly; loaded as a module it sets up tracing and
\* the route and starts no listener; the basic module never starts one.
C7_EntryAndBinding ==
    /\ listener["basic"].by # "module"
    /\ listener["ai"].by = "module" =>
          /\ mode["ai"] = "main"
          /\ listener["ai"].host = "0.0.0.0"
          /\ listener["ai"].port = 8000
    /\ (mode["ai"] = "main" /\ Completed("ai")) => listener["ai"].by = "module"
    /\ (mode["ai"] = "import" /\ proc["ai"] = "loaded") =>
          /\ listener["ai"] = NoListener
          /\ tracerProvider.processors # <<>>
          /\ \E k \in DOMAIN routes["ai"] : routes["ai"][k].path = Root
    /\ proc["basic"] = "exited" => listener["basic"] = NoListener

\* The ai service serves on its own listener while the basic service is
\* served by the process that imported it.
C7_Witness ==
    /\ listener["ai"].by = "module" /\ proc["ai"] = "serving"
    /\ listener["basic"].by = "host" /\ proc["basic"] = "serving"

\* C8: once the ai service has failed at startup (a setup statement raised or
\* the port could not be bound) the process has exited with a non-zero
\* status, holds no listener and has accepted no request; a serving process
\* has executed every statement without error.
C8_StartupErrorsFatal ==
    /\ startupError["ai"] =>
          /\ proc["ai"] = "exited"
          /\ exitCode["ai"] # 0
          /\ listener["ai"] = NoListener
          /\ \A i \in DOMAIN reqs : reqs[i].svc # "ai"
    /\ proc["ai"] = "serving" => Completed("ai")

\* The instrumentation of the app raised and the process has exited.
C8_Witness ==
    /\ startupError["ai"]
    /\ proc["ai"] = "exited"
    /\ ran["ai"]["add_span_processor"] = 1
    /\ ran["ai"]["instrument_app"] = 0

\* The number of times the ai module has executed a statement.
Ran(st) == ran["ai"][st]

\* C9: the ai module installs the provider, attaches the batch processor,
\* wraps the app and wraps logging, in this order and each once, before any
\* listener accepts requests; every request the service handles, GET /
\* included, passes through the tracing middleware.
C9_StartupOrder ==
    /\ \A st \in Statements : Ran(st) <= 1
    /\ Ran("add_span_processor") <= Ran("set_tracer_provider")
    /\ Ran("instrument_app") <= Ran("add_span_processor")
    /\ Ran("logging_instrument") <= Ran("instrument_app")
    /\ Ran("route") <= Ran("logging_instrument")
    /\ (listener["ai"] # NoListener \/ proc["ai"] = "serving") =>
          /\ tracerProvider.set
          /\ tracerProvider.processors = <<"batch">>
          /\ middleware["ai"] = <<"OpenTelemetryMiddleware">>
          /\ loggingInstrumented
          /\ \A st \in TracingStmts \cup {"FastAPI", "route"} : Ran(st) = 1
    /\ \A i \in DOMAIN reqs :
          reqs[i].svc = "ai" =>
              /\ listener["ai"] # NoListener
              /\ reqs[i].stage # "received" => reqs[i].span # "none"

\* A GET / of the ai service, whose route was registered after the app was
\* wrapped, has been answered inside a span.
C9_Witness ==
    \E i \in DOMAIN reqs :
        /\ reqs[i].svc = "ai" /\ reqs[i].method = "GET" /\ reqs[i].path = Root
        /\ Responded(i) /\ reqs[i].status = 200 /\ reqs[i].span # "none"

\* The next step of request i in the request pipeline.
PipelineStep(i) == StartSpan(i) \/ Handle(i) \/ EndSpan(i)

\* C2: while the collector is unreachable no request of the ai service waits
\* for an export (its next step can be taken), and every GET / is answered
\* 200 with the unchanged body, also when the export of its own span failed.
C2_Transparent ==
    \A i \in DOMAIN reqs :
        reqs[i].svc = "ai" =>
            /\ (~collectorUp /\ reqs[i].stage # "done") => ENABLED PipelineStep(i)
            /\ (Responded(i) /\ reqs[i].method = "GET" /\ reqs[i].path = Root) =>
                  (reqs[i].status = 200 /\ reqs[i].body = AiBody)
            /\ (i \in failed \cup dropped) => reqs[i].stage = "done"

\* With the collector unreachable, the export of an earlier span has failed
\* and a later GET / has completed with 200; its own span's export failed too.
C2_Witness ==
    /\ ~collectorUp
    /\ \E i, j \in DOMAIN reqs :
          /\ i < j /\ i \in failed /\ j \in failed
          /\ reqs[j].svc = "ai" /\ reqs[j].method = "GET" /\ reqs[j].path = Root
          /\ reqs[j].stage = "done" /\ reqs[j].status = 200 /\ reqs[j].body = AiBody

====
